---- MODULE Spec2Model ----
(***************************************************************************)
(* Epoch-based memory reclamation: the Participant record of               *)
(* src/mem/epoch/participant.rs (enter, exit, reclaim, try_collect,        *)
(* migrate_garbage, garbage_size), together with the collaborators it      *)
(* calls: garbage::Local (reclaim, collect, size), the global epoch, the   *)
(* participant list and the three global garbage bags.                     *)
(*                                                                         *)
(* Every participant is one thread.  An operation is split into one step   *)
(* per access to shared memory (the global epoch, another participant's    *)
(* in_critical / epoch, a global bag); accesses to the participant's own   *)
(* local garbage are folded into the neighbouring step, because no other   *)
(* thread reads it.  Memory is sequentially consistent in this model: the  *)
(* Relaxed / Acquire / Release orderings of the source are not modelled.   *)
(***************************************************************************)
EXTENDS Naturals, Sequences, FiniteSets

\* ------------------------------------------------------------------ bounds
NumProcs == 2      \* participants registered in the global list
MaxObj   == 2      \* objects that are ever passed to reclaim
MaxEpoch == 3      \* try_collect is not started once the global epoch is here
MaxDepth == 2      \* deepest nesting of enter
MigObjs  == 5      \* objects the migrating thread of the migration scenario reclaims
EpochBits == 4     \* width of the epoch counter (usize, scaled down)

Procs == 1..NumProcs
Objs  == 1..(IF MaxObj > MigObjs THEN MaxObj ELSE MigObjs)
Bags  == 0..2
EpochMod == 2 ^ EpochBits

\* ------------------------------------------------------------------ state
VARIABLES
    global_epoch,    \* global::get().epoch
    global_garbage,  \* global::get().garbage[0..2], each a sequence of objects
    epoch,           \* epoch[p]: Participant.epoch
    in_critical,     \* in_critical[p]: Participant.in_critical
    garbage,         \* garbage[p]: Participant.garbage, [old, cur, new]
    pc,              \* pc[p]: where participant p's thread stands
    cur_epoch,       \* cur_epoch[p]: the local `cur_epoch` of try_collect / migrate_garbage
    seen_epoch,      \* seen_epoch[p]: the global epoch read in enter (l.60) / migrate_garbage (l.114)
    scan_i,          \* scan_i[p]: position of try_collect's iterator in the participant list
    local,           \* local[p]: the `local` moved out by mem::replace in migrate_garbage
    nextObj,         \* the next object that will be passed to reclaim
    destroyed,       \* destroyed[x]: how many times x's destructor has run
    pinnedSince,     \* pinnedSince[x]: participants in a critical section since before reclaim(x)
                     \*   that have not advanced the epoch themselves since
    advSince,        \* advSince[x]: global epoch advances since reclaim(x), saturating at 2
    result,          \* result[p]: what p's last try_collect returned ("none" while running)
    scanSaw,         \* scanSaw[p]: what the scan of p's last try_collect loaded last: "critical"
                     \*   (in_critical > 0), "stale" (then also epoch # cur_epoch), else "no"
    casTries,        \* casTries[p]: compare-and-swaps attempted by p's last try_collect
    casWon,          \* casWon[p]: p's last try_collect's compare-and-swap took effect
    wins,            \* wins[e]: try_collect calls that snapshotted e and returned true (saturating at 2)
    trackAge,        \* whether this specification records pinnedSince and advSince
    scen             \* how far the run has followed the single-thread scenario of ScenNext

vars == <<global_epoch, global_garbage, epoch, in_critical, garbage, pc,
          cur_epoch, seen_epoch, scan_i, local, nextObj, destroyed,
          pinnedSince, advSince, result, scanSaw, casTries, casWon, wins, trackAge, scen>>

\* ---------------------------------------------------------------- helpers
EmptyLocal == [old |-> <<>>, cur |-> <<>>, new |-> <<>>]

Count(s, x) == Cardinality({i \in 1..Len(s) : s[i] = x})

wrapping_add(e, k) == (e + k) % EpochMod

wrapping_sub(e, k) == (e + EpochMod - k) % EpochMod

new_epoch_skip(cur) == wrapping_add(cur, 2)

new_epoch(cur) == wrapping_add(cur, 1)

\* garbage::Local::size
size(g) == Len(g.old) + Len(g.cur) + Len(g.new)

\* Participant::garbage_size
garbage_size(p) == size(garbage[p])

\* garbage::Local::reclaim: push onto the `new` generation
LocalReclaim(g, x) == [g EXCEPT !.new = Append(g.new, x)]

\* garbage::Local::collect: after the old generation's destructors have run,
\* cur becomes old, new becomes cur and new starts empty
LocalRotate(g) == [old |-> g.cur, cur |-> g.new, new |-> <<>>]

\* running the destructor of every entry of bag s
RunDestructors(s) == [x \in Objs |-> destroyed[x] + Count(s, x)]

\* the test of try_collect's scan on the values it loaded (l.87)
InCriticalAny(ic) == TRUE

InCritical(ic) == ic > 0

StaleNever(e, cur) == FALSE

Stale(e, cur) == e # cur

\* index of the global bag collected after an advance to n (l.102)
CollectIndexSame(n) == n % 3

CollectIndex(n) == wrapping_add(n, 1) % 3

\* indices of the global bags migrate_garbage files into (l.112-114)
OldIndexAsCur(e) == e % 3

OldIndex(e) == wrapping_sub(e, 1) % 3

CurIndex(e) == e % 3

NewIndex(g) == g % 3

\* p has completed an outermost enter and not left that critical section
Pinned(p) == in_critical[p] > 0 /\ pc[p] \notin {"enter_load", "enter_sync"}

Sat2(n) == IF n >= 2 THEN 2 ELSE n

\* ------------------------------------------------------------------- init
InitAt(e, age) ==
    /\ trackAge = age
    /\ scen = "start"
    /\ global_epoch = e
    /\ global_garbage = [i \in Bags |-> <<>>]
    /\ epoch = [p \in Procs |-> e]
    /\ in_critical = [p \in Procs |-> 0]
    /\ garbage = [p \in Procs |-> EmptyLocal]
    /\ pc = [p \in Procs |-> "idle"]
    /\ cur_epoch = [p \in Procs |-> 0]
    /\ seen_epoch = [p \in Procs |-> 0]
    /\ scan_i = [p \in Procs |-> 0]
    /\ local = [p \in Procs |-> EmptyLocal]
    /\ nextObj = 1
    /\ destroyed = [x \in Objs |-> 0]
    /\ pinnedSince = [x \in Objs |-> {}]
    /\ advSince = [x \in Objs |-> 0]
    /\ result = [p \in Procs |-> "none"]
    /\ scanSaw = [p \in Procs |-> "no"]
    /\ casTries = [p \in Procs |-> 0]
    /\ casWon = [p \in Procs |-> FALSE]
    /\ wins = [i \in 0..(EpochMod - 1) |-> 0]

\* Participant::new and a fresh global state: every epoch is 0
Init == InitAt(0, FALSE)

histVars == <<pinnedSince, advSince, result, scanSaw, casTries, casWon, wins, trackAge>>

\* the record of p's last try_collect is dropped when p starts its next operation
ResetCall(p) ==
    /\ result' = [result EXCEPT ![p] = "none"]
    /\ scanSaw' = [scanSaw EXCEPT ![p] = "no"]
    /\ casTries' = [casTries EXCEPT ![p] = 0]
    /\ casWon' = [casWon EXCEPT ![p] = FALSE]

\* The scenario of one thread, ScenProc, running alone from the initial state:
\* enter, reclaim, exit, enter, then try_collect three times.  scen names the
\* last operation of it that has returned; a step of another participant, or
\* another operation of ScenProc, ends it ("off"); a try_collect of the
\* scenario that returns false makes it "failed".
ScenProc == CHOOSE p \in Procs : \A q \in Procs : p <= q

\* the object the scenario reclaims: the first one
ScenObj == CHOOSE x \in Objs : \A y \in Objs : x <= y

ScenNext(p, ev) ==
    CASE scen \in {"off", "failed"} -> scen
      [] p # ScenProc -> "off"
      [] ev = "step" -> scen
      [] ev = "enter" /\ scen \in {"start", "exited"} -> scen
      [] ev = "entered" /\ scen = "start" -> "entered"
      [] ev = "reclaim" /\ scen = "entered" -> "reclaimed"
      [] ev = "exit" /\ scen = "reclaimed" -> "exited"
      [] ev = "entered" /\ scen = "exited" -> "reentered"
      [] ev = "try_collect" /\ scen \in {"reentered", "collect1", "collect2"} -> scen
      [] ev = "true" /\ scen = "reentered" -> "collect1"
      [] ev = "true" /\ scen = "collect1" -> "collect2"
      [] ev = "true" /\ scen = "collect2" -> "collect3"
      [] ev = "false" /\ scen \in {"reentered", "collect1", "collect2"} -> "failed"
      [] OTHER -> "off"

\* ------------------------------------------------------------------ enter
\* (as EnterCount, without the early return of a nested enter)
EnterCountAlways(p) ==
    /\ pc[p] = "idle"
    /\ scen' = ScenNext(p, "enter")
    /\ in_critical[p] < MaxDepth
    /\ in_critical' = [in_critical EXCEPT ![p] = in_critical[p] + 1]
    /\ pc' = [pc EXCEPT ![p] = "enter_load"]
    /\ ResetCall(p)
    /\ UNCHANGED <<global_epoch, global_garbage, epoch, garbage, cur_epoch, seen_epoch,
                   scan_i, local, nextObj, destroyed, pinnedSince, advSince, wins, trackAge>>

\* l.54-56: bump in_critical; a nested enter returns at once
EnterCount(p) ==
    /\ pc[p] = "idle"
    /\ scen' = ScenNext(p, "enter")
    /\ in_critical[p] < MaxDepth
    /\ in_critical' = [in_critical EXCEPT ![p] = in_critical[p] + 1]
    /\ pc' = [pc EXCEPT ![p] = IF in_critical[p] + 1 > 1 THEN "idle" ELSE "enter_load"]
    /\ ResetCall(p)
    /\ UNCHANGED <<global_epoch, global_garbage, epoch, garbage, cur_epoch, seen_epoch,
                   scan_i, local, nextObj, destroyed, pinnedSince, advSince, wins, trackAge>>

\* l.58-60: fence, then load the global epoch
EnterLoad(p) ==
    /\ pc[p] = "enter_load"
    /\ scen' = ScenNext(p, "step")
    /\ seen_epoch' = [seen_epoch EXCEPT ![p] = global_epoch]
    /\ pc' = [pc EXCEPT ![p] = "enter_sync"]
    /\ UNCHANGED <<global_epoch, global_garbage, epoch, in_critical, garbage,
                   cur_epoch, scan_i, local, nextObj, destroyed, histVars>>

\* (as EnterSync, storing and collecting whether or not the epoch has changed)
EnterSyncAlways(p) ==
    /\ pc[p] = "enter_sync"
    /\ scen' = ScenNext(p, "entered")
    /\ epoch' = [epoch EXCEPT ![p] = seen_epoch[p]]
    /\ destroyed' = RunDestructors(garbage[p].old)
    /\ garbage' = [garbage EXCEPT ![p] = LocalRotate(garbage[p])]
    /\ seen_epoch' = [seen_epoch EXCEPT ![p] = 0]
    /\ pc' = [pc EXCEPT ![p] = "idle"]
    /\ UNCHANGED <<global_epoch, global_garbage, in_critical, cur_epoch,
                   scan_i, local, nextObj, histVars>>

\* l.61-64: on a changed epoch, store it and collect the local garbage
EnterSync(p) ==
    /\ pc[p] = "enter_sync"
    /\ scen' = ScenNext(p, "entered")
    /\ IF seen_epoch[p] # epoch[p]
       THEN /\ epoch' = [epoch EXCEPT ![p] = seen_epoch[p]]
            /\ destroyed' = RunDestructors(garbage[p].old)
            /\ garbage' = [garbage EXCEPT ![p] = LocalRotate(garbage[p])]
       ELSE UNCHANGED <<epoch, destroyed, garbage>>
    /\ seen_epoch' = [seen_epoch EXCEPT ![p] = 0]
    /\ pc' = [pc EXCEPT ![p] = "idle"]
    /\ UNCHANGED <<global_epoch, global_garbage, in_critical, cur_epoch,
                   scan_i, local, nextObj, histVars>>

\* ------------------------------------------------------------------- exit
\* l.68-73, for paired use (in_critical > 0)
Exit(p) ==
    /\ pc[p] = "idle"
    /\ scen' = ScenNext(p, "exit")
    /\ in_critical[p] > 0
    /\ in_critical' = [in_critical EXCEPT ![p] = in_critical[p] - 1]
    /\ pinnedSince' = [x \in Objs |->
                          IF in_critical[p] - 1 = 0 THEN pinnedSince[x] \ {p}
                                                    ELSE pinnedSince[x]]
    /\ ResetCall(p)
    /\ UNCHANGED <<global_epoch, global_garbage, epoch, garbage, pc, cur_epoch,
                   seen_epoch, scan_i, local, nextObj, destroyed, advSince,
                   wins, trackAge>>

\* ---------------------------------------------------------------- reclaim
\* (as Reclaim, collecting the local garbage right after the push)
ReclaimEager(p, max) ==
    /\ pc[p] = "idle"
    /\ scen' = ScenNext(p, "reclaim")
    /\ in_critical[p] > 0
    /\ nextObj <= max
    /\ destroyed' = RunDestructors(garbage[p].old)
    /\ garbage' = [garbage EXCEPT ![p] = LocalRotate(LocalReclaim(garbage[p], nextObj))]
    /\ nextObj' = nextObj + 1
    /\ pinnedSince' = [pinnedSince EXCEPT ![nextObj] =
                          IF trackAge THEN {q \in Procs : Pinned(q)} ELSE {}]
    /\ ResetCall(p)
    /\ UNCHANGED <<global_epoch, global_garbage, epoch, in_critical, pc, cur_epoch,
                   seen_epoch, scan_i, local, advSince, wins, trackAge>>

\* l.76-78, called inside a critical section on a freshly unlinked object
Reclaim(p, max) ==
    /\ pc[p] = "idle"
    /\ scen' = ScenNext(p, "reclaim")
    /\ in_critical[p] > 0
    /\ nextObj <= max
    /\ garbage' = [garbage EXCEPT ![p] = LocalReclaim(garbage[p], nextObj)]
    /\ nextObj' = nextObj + 1
    /\ pinnedSince' = [pinnedSince EXCEPT ![nextObj] =
                          IF trackAge THEN {q \in Procs : Pinned(q)} ELSE {}]
    /\ ResetCall(p)
    /\ UNCHANGED <<global_epoch, global_garbage, epoch, in_critical, pc, cur_epoch,
                   seen_epoch, scan_i, local, destroyed, advSince, wins, trackAge>>

\* ------------------------------------------------------------ try_collect
\* l.83-84: called with a Guard (inside a critical section); snapshot the epoch
TryCollectLoad(p, lim) ==
    /\ pc[p] = "idle"
    /\ scen' = ScenNext(p, "try_collect")
    /\ in_critical[p] > 0
    /\ global_epoch < lim
    /\ cur_epoch' = [cur_epoch EXCEPT ![p] = global_epoch]
    /\ scan_i' = [scan_i EXCEPT ![p] = 1]
    /\ pc' = [pc EXCEPT ![p] = "tc_scan"]
    /\ ResetCall(p)
    /\ UNCHANGED <<global_epoch, global_garbage, epoch, in_critical, garbage,
                   seen_epoch, local, nextObj, destroyed, pinnedSince, advSince, wins, trackAge>>

\* end of try_collect with `return false`
ReturnFalse(p) ==
    /\ pc' = [pc EXCEPT ![p] = "idle"]
    /\ result' = [result EXCEPT ![p] = "false"]
    /\ cur_epoch' = [cur_epoch EXCEPT ![p] = 0]
    /\ scan_i' = [scan_i EXCEPT ![p] = 0]
    /\ scen' = ScenNext(p, "false")

\* the iterator moves to the next participant, or the scan is over
ScanNext(p) ==
    /\ result' = result
    /\ scen' = ScenNext(p, "step")
    /\ cur_epoch' = cur_epoch
    /\ IF scan_i[p] = NumProcs
       THEN /\ scan_i' = [scan_i EXCEPT ![p] = 0]
            /\ pc' = [pc EXCEPT ![p] = "tc_cas"]
       ELSE /\ scan_i' = [scan_i EXCEPT ![p] = scan_i[p] + 1]
            /\ pc' = [pc EXCEPT ![p] = "tc_scan"]

\* (as TryCollectScan, the scan passing over the caller's own record)
TryCollectScanOthers(p) ==
    /\ pc[p] = "tc_scan"
    /\ IF scan_i[p] # p /\ InCritical(in_critical[scan_i[p]])
       THEN /\ pc' = [pc EXCEPT ![p] = "tc_scan_epoch"]
            /\ scen' = ScenNext(p, "step")
            /\ UNCHANGED <<result, cur_epoch, scan_i>>
       ELSE ScanNext(p)
    /\ scanSaw' = [scanSaw EXCEPT ![p] =
                      IF in_critical[scan_i[p]] > 0 THEN "critical" ELSE "no"]
    /\ UNCHANGED <<global_epoch, global_garbage, epoch, in_critical, garbage,
                   seen_epoch, local, nextObj, destroyed, pinnedSince, advSince,
                   casTries, casWon, wins, trackAge>>

\* l.87, first load: the scanned participant's in_critical
TryCollectScan(p) ==
    /\ pc[p] = "tc_scan"
    /\ IF InCritical(in_critical[scan_i[p]])
       THEN /\ pc' = [pc EXCEPT ![p] = "tc_scan_epoch"]
            /\ scen' = ScenNext(p, "step")
            /\ UNCHANGED <<result, cur_epoch, scan_i>>
       ELSE ScanNext(p)
    /\ scanSaw' = [scanSaw EXCEPT ![p] =
                      IF in_critical[scan_i[p]] > 0 THEN "critical" ELSE "no"]
    /\ UNCHANGED <<global_epoch, global_garbage, epoch, in_critical, garbage,
                   seen_epoch, local, nextObj, destroyed, pinnedSince, advSince,
                   casTries, casWon, wins, trackAge>>

\* (as TryCollectScanEpoch, waiting for a stale participant to catch up)
TryCollectScanEpochWait(p) ==
    /\ pc[p] = "tc_scan_epoch"
    /\ ~Stale(epoch[scan_i[p]], cur_epoch[p])
    /\ scanSaw' = [scanSaw EXCEPT ![p] = "no"]
    /\ ScanNext(p)
    /\ UNCHANGED <<global_epoch, global_garbage, epoch, in_critical, garbage,
                   seen_epoch, local, nextObj, destroyed, pinnedSince, advSince,
                   casTries, casWon, wins, trackAge>>

\* l.87-88, second load: the scanned participant's epoch
TryCollectScanEpoch(p) ==
    /\ pc[p] = "tc_scan_epoch"
    /\ scanSaw' = [scanSaw EXCEPT ![p] =
                      IF scanSaw[p] = "critical" /\ epoch[scan_i[p]] # cur_epoch[p]
                      THEN "stale" ELSE "no"]
    /\ IF Stale(epoch[scan_i[p]], cur_epoch[p])
       THEN ReturnFalse(p)
       ELSE ScanNext(p)
    /\ UNCHANGED <<global_epoch, global_garbage, epoch, in_critical, garbage,
                   seen_epoch, local, nextObj, destroyed, pinnedSince, advSince,
                   casTries, casWon, wins, trackAge>>

\* (as TryCollectCas, with a plain store in place of the compare-and-swap)
TryCollectCasBlind(p) ==
    /\ pc[p] = "tc_cas"
    /\ casTries' = [casTries EXCEPT ![p] = casTries[p] + 1]
    /\ global_epoch' = new_epoch(cur_epoch[p])
    /\ casWon' = [casWon EXCEPT ![p] = TRUE]
    /\ advSince' = [x \in Objs |->
                      IF trackAge /\ x < nextObj /\ destroyed[x] = 0
                      THEN Sat2(advSince[x] + 1) ELSE advSince[x]]
    /\ pc' = [pc EXCEPT ![p] = "tc_store"]
    /\ scen' = ScenNext(p, "step")
    /\ UNCHANGED <<result, cur_epoch, scan_i>>
    /\ UNCHANGED <<global_garbage, epoch, in_critical, garbage, seen_epoch,
                   local, nextObj, destroyed, pinnedSince, scanSaw, wins, trackAge>>

\* (as TryCollectCas, a lost compare-and-swap adopting the epoch it found)
TryCollectCasSync(p) ==
    /\ pc[p] = "tc_cas"
    /\ casTries' = [casTries EXCEPT ![p] = casTries[p] + 1]
    /\ IF global_epoch = cur_epoch[p]
       THEN /\ global_epoch' = new_epoch(cur_epoch[p])
            /\ casWon' = [casWon EXCEPT ![p] = TRUE]
            /\ advSince' = [x \in Objs |->
                              IF trackAge /\ x < nextObj /\ destroyed[x] = 0
                              THEN Sat2(advSince[x] + 1) ELSE advSince[x]]
            /\ pc' = [pc EXCEPT ![p] = "tc_store"]
            /\ scen' = ScenNext(p, "step")
            /\ UNCHANGED <<result, cur_epoch, scan_i, epoch>>
       ELSE /\ ReturnFalse(p)
            /\ epoch' = [epoch EXCEPT ![p] = global_epoch]
            /\ UNCHANGED <<global_epoch, casWon, advSince>>
    /\ UNCHANGED <<global_garbage, in_critical, garbage, seen_epoch,
                   local, nextObj, destroyed, pinnedSince, scanSaw, wins, trackAge>>

\* l.92-96: one compare-and-swap of the global epoch
TryCollectCas(p) ==
    /\ pc[p] = "tc_cas"
    /\ casTries' = [casTries EXCEPT ![p] = casTries[p] + 1]
    /\ IF global_epoch = cur_epoch[p]
       THEN /\ global_epoch' = new_epoch(cur_epoch[p])
            /\ casWon' = [casWon EXCEPT ![p] = TRUE]
            /\ advSince' = [x \in Objs |->
                              IF trackAge /\ x < nextObj /\ destroyed[x] = 0
                              THEN Sat2(advSince[x] + 1) ELSE advSince[x]]
            /\ pc' = [pc EXCEPT ![p] = "tc_store"]
            /\ scen' = ScenNext(p, "step")
            /\ UNCHANGED <<result, cur_epoch, scan_i>>
       ELSE /\ ReturnFalse(p)
            /\ UNCHANGED <<global_epoch, casWon, advSince>>
    /\ UNCHANGED <<global_garbage, epoch, in_critical, garbage, seen_epoch,
                   local, nextObj, destroyed, pinnedSince, scanSaw, wins, trackAge>>

\* (as TryCollectStore, without the collect of the local garbage)
TryCollectStoreOnly(p) ==
    /\ pc[p] = "tc_store"
    /\ scen' = ScenNext(p, "step")
    /\ epoch' = [epoch EXCEPT ![p] = new_epoch(cur_epoch[p])]
    /\ pc' = [pc EXCEPT ![p] = "tc_global"]
    /\ pinnedSince' = [x \in Objs |-> pinnedSince[x] \ {p}]
    /\ UNCHANGED <<global_epoch, global_garbage, in_critical, cur_epoch, seen_epoch,
                   scan_i, local, nextObj, advSince, result, scanSaw, casTries,
                   casWon, wins, trackAge, destroyed, garbage>>

\* (as TryCollectStore, storing the epoch after the new one)
TryCollectStoreNext(p) ==
    /\ pc[p] = "tc_store"
    /\ scen' = ScenNext(p, "step")
    /\ epoch' = [epoch EXCEPT ![p] = wrapping_add(new_epoch(cur_epoch[p]), 1)]
    /\ destroyed' = RunDestructors(garbage[p].old)
    /\ garbage' = [garbage EXCEPT ![p] = LocalRotate(garbage[p])]
    /\ pc' = [pc EXCEPT ![p] = "tc_global"]
    /\ pinnedSince' = [x \in Objs |-> pinnedSince[x] \ {p}]
    /\ UNCHANGED <<global_epoch, global_garbage, in_critical, cur_epoch, seen_epoch,
                   scan_i, local, nextObj, advSince, result, scanSaw, casTries,
                   casWon, wins, trackAge>>

\* (as TryCollectStore, collecting the local garbage twice)
TryCollectStoreTwice(p) ==
    /\ pc[p] = "tc_store"
    /\ scen' = ScenNext(p, "step")
    /\ epoch' = [epoch EXCEPT ![p] = new_epoch(cur_epoch[p])]
    /\ destroyed' = RunDestructors(garbage[p].old \o garbage[p].cur)
    /\ garbage' = [garbage EXCEPT ![p] = LocalRotate(LocalRotate(garbage[p]))]
    /\ pc' = [pc EXCEPT ![p] = "tc_global"]
    /\ pinnedSince' = [x \in Objs |-> pinnedSince[x] \ {p}]
    /\ UNCHANGED <<global_epoch, global_garbage, in_critical, cur_epoch, seen_epoch,
                   scan_i, local, nextObj, advSince, result, scanSaw, casTries,
                   casWon, wins, trackAge>>

\* l.98-101: store the new local epoch and collect the local garbage
TryCollectStore(p) ==
    /\ pc[p] = "tc_store"
    /\ scen' = ScenNext(p, "step")
    /\ epoch' = [epoch EXCEPT ![p] = new_epoch(cur_epoch[p])]
    /\ destroyed' = RunDestructors(garbage[p].old)
    /\ garbage' = [garbage EXCEPT ![p] = LocalRotate(garbage[p])]
    /\ pc' = [pc EXCEPT ![p] = "tc_global"]
    /\ pinnedSince' = [x \in Objs |-> pinnedSince[x] \ {p}]
    /\ UNCHANGED <<global_epoch, global_garbage, in_critical, cur_epoch, seen_epoch,
                   scan_i, local, nextObj, advSince, result, scanSaw, casTries,
                   casWon, wins, trackAge>>

\* l.102-105: collect one global bag and return true
TryCollectGlobal(p) ==
    /\ pc[p] = "tc_global"
    /\ scen' = ScenNext(p, "true")
    /\ LET i == CollectIndex(new_epoch(cur_epoch[p]))
       IN /\ destroyed' = RunDestructors(global_garbage[i])
          /\ global_garbage' = [global_garbage EXCEPT ![i] = <<>>]
    /\ wins' = [wins EXCEPT ![cur_epoch[p]] = Sat2(wins[cur_epoch[p]] + 1)]
    /\ result' = [result EXCEPT ![p] = "true"]
    /\ cur_epoch' = [cur_epoch EXCEPT ![p] = 0]
    /\ pc' = [pc EXCEPT ![p] = "idle"]
    /\ UNCHANGED <<global_epoch, epoch, in_critical, garbage, seen_epoch, scan_i,
                   local, nextObj, pinnedSince, advSince, scanSaw, casTries, casWon, trackAge>>

\* -------------------------------------------------------- migrate_garbage
\* (as MigrateTake, copying the local garbage instead of moving it out)
MigrateTakeCopy(p) ==
    /\ pc[p] = "idle"
    /\ scen' = ScenNext(p, "migrate")
    /\ cur_epoch' = [cur_epoch EXCEPT ![p] = epoch[p]]
    /\ local' = [local EXCEPT ![p] = garbage[p]]
    /\ pc' = [pc EXCEPT ![p] = "mig_old"]
    /\ ResetCall(p)
    /\ UNCHANGED <<global_epoch, global_garbage, epoch, in_critical, seen_epoch, garbage,
                   scan_i, nextObj, destroyed, pinnedSince, advSince, wins, trackAge>>

\* l.110-111: load the local epoch and move the local garbage out
MigrateTake(p) ==
    /\ pc[p] = "idle"
    /\ scen' = ScenNext(p, "migrate")
    /\ cur_epoch' = [cur_epoch EXCEPT ![p] = epoch[p]]
    /\ local' = [local EXCEPT ![p] = garbage[p]]
    /\ garbage' = [garbage EXCEPT ![p] = EmptyLocal]
    /\ pc' = [pc EXCEPT ![p] = "mig_old"]
    /\ ResetCall(p)
    /\ UNCHANGED <<global_epoch, global_garbage, epoch, in_critical, seen_epoch,
                   scan_i, nextObj, destroyed, pinnedSince, advSince, wins, trackAge>>

\* l.112: insert local.old
MigrateOld(p) ==
    /\ pc[p] = "mig_old"
    /\ scen' = ScenNext(p, "migrate")
    /\ global_garbage' = [global_garbage EXCEPT ![OldIndex(cur_epoch[p])] = @ \o local[p].old]
    /\ local' = [local EXCEPT ![p].old = <<>>]
    /\ pc' = [pc EXCEPT ![p] = "mig_cur"]
    /\ UNCHANGED <<global_epoch, epoch, in_critical, garbage, cur_epoch,
                   seen_epoch, scan_i, nextObj, destroyed, histVars>>

\* l.113: insert local.cur
MigrateCur(p) ==
    /\ pc[p] = "mig_cur"
    /\ scen' = ScenNext(p, "migrate")
    /\ global_garbage' = [global_garbage EXCEPT ![CurIndex(cur_epoch[p])] = @ \o local[p].cur]
    /\ local' = [local EXCEPT ![p].cur = <<>>]
    /\ cur_epoch' = [cur_epoch EXCEPT ![p] = 0]
    /\ pc' = [pc EXCEPT ![p] = "mig_load"]
    /\ UNCHANGED <<global_epoch, epoch, in_critical, garbage,
                   seen_epoch, scan_i, nextObj, destroyed, histVars>>

\* l.114, index expression: load the global epoch
MigrateLoad(p) ==
    /\ pc[p] = "mig_load"
    /\ scen' = ScenNext(p, "migrate")
    /\ seen_epoch' = [seen_epoch EXCEPT ![p] = global_epoch]
    /\ pc' = [pc EXCEPT ![p] = "mig_new"]
    /\ UNCHANGED <<global_epoch, global_garbage, epoch, in_critical, garbage,
                   cur_epoch, scan_i, local, nextObj, destroyed, histVars>>

\* (as MigrateNew, dropping local.new instead of inserting it)
MigrateNewDrop(p) ==
    /\ pc[p] = "mig_new"
    /\ scen' = ScenNext(p, "migrate")
    /\ local' = [local EXCEPT ![p].new = <<>>]
    /\ seen_epoch' = [seen_epoch EXCEPT ![p] = 0]
    /\ pc' = [pc EXCEPT ![p] = "idle"]
    /\ UNCHANGED <<global_epoch, epoch, in_critical, garbage, cur_epoch,
                   scan_i, nextObj, destroyed, histVars, global_garbage>>

\* l.114: insert local.new
MigrateNew(p) ==
    /\ pc[p] = "mig_new"
    /\ scen' = ScenNext(p, "migrate")
    /\ global_garbage' = [global_garbage EXCEPT ![NewIndex(seen_epoch[p])] = @ \o local[p].new]
    /\ local' = [local EXCEPT ![p].new = <<>>]
    /\ seen_epoch' = [seen_epoch EXCEPT ![p] = 0]
    /\ pc' = [pc EXCEPT ![p] = "idle"]
    /\ UNCHANGED <<global_epoch, epoch, in_critical, garbage, cur_epoch,
                   scan_i, nextObj, destroyed, histVars>>

\* ------------------------------------------------------------------- next
Next ==
    \E p \in Procs :
        \/ EnterCount(p)
        \/ EnterLoad(p)
        \/ EnterSync(p)
        \/ Exit(p)
        \/ Reclaim(p, MaxObj)
        \/ TryCollectLoad(p, MaxEpoch)
        \/ TryCollectScan(p)
        \/ TryCollectScanEpoch(p)
        \/ TryCollectCas(p)
        \/ TryCollectStore(p)
        \/ TryCollectGlobal(p)
        \/ MigrateTake(p)
        \/ MigrateOld(p)
        \/ MigrateCur(p)
        \/ MigrateLoad(p)
        \/ MigrateNew(p)

Spec == Init /\ [][Next]_vars

\* The migration scenario: one thread, MigProc, enters, reclaims MigObjs
\* objects, calls migrate_garbage once and exits, and calls nothing else; the
\* other threads enter, exit and call try_collect as they like.  Every thread
\* that has started an operation finishes it (the operations are non-blocking
\* and the threads are scheduled).
MigProc == CHOOSE p \in Procs : \A q \in Procs : p >= q

Running(p) ==
    \/ EnterLoad(p)
    \/ EnterSync(p)
    \/ TryCollectScan(p)
    \/ TryCollectScanEpoch(p)
    \/ TryCollectCas(p)
    \/ TryCollectStore(p)
    \/ TryCollectGlobal(p)
    \/ MigrateOld(p)
    \/ MigrateCur(p)
    \/ MigrateLoad(p)
    \/ MigrateNew(p)

NextMig ==
    \E p \in Procs :
        \/ (p = MigProc => nextObj = 1 /\ in_critical[p] = 0) /\ EnterCount(p)
        \/ Exit(p)
        \/ p = MigProc /\ Reclaim(p, MigObjs)
        \/ p # MigProc /\ TryCollectLoad(p, MaxEpoch)
        \/ p = MigProc /\ garbage_size(p) = MigObjs /\ MigrateTake(p)
        \/ Running(p)

SpecMig == Init /\ [][NextMig]_vars /\ \A p \in Procs : WF_vars(Running(p))

\* the same program, recording since when each reclaimed object has been waiting
InitAge == InitAt(0, TRUE)

SpecAge == InitAge /\ [][Next]_vars

\* The same program with the epoch counter about to wrap: every epoch starts
\* at EpochMod - 2 (all participants have observed that global epoch and
\* hold no garbage), and try_collect is started for MaxEpoch more advances,
\* which take the counter through EpochMod - 1 and 0.
WrapStart == EpochMod - 2

InitWrap == InitAt(WrapStart, TRUE)

NextWrap ==
    \E p \in Procs :
        \/ EnterCount(p)
        \/ EnterLoad(p)
        \/ EnterSync(p)
        \/ Exit(p)
        \/ Reclaim(p, MaxObj)
        \/ wrapping_sub(global_epoch, WrapStart) < MaxEpoch /\ TryCollectLoad(p, EpochMod)
        \/ TryCollectScan(p)
        \/ TryCollectScanEpoch(p)
        \/ TryCollectCas(p)
        \/ TryCollectStore(p)
        \/ TryCollectGlobal(p)
        \/ MigrateTake(p)
        \/ MigrateOld(p)
        \/ MigrateCur(p)
        \/ MigrateLoad(p)
        \/ MigrateNew(p)

SpecWrap == InitWrap /\ [][NextWrap]_vars

\* ----------------------------------------------------------------- claims
RECURSIVE SumTo(_, _)
SumTo(f, n) == IF n = 0 THEN 0 ELSE f[n] + SumTo(f, n - 1)

\* in how many places of one Local value x is held
LocalHolds(g, x) == Count(g.old, x) + Count(g.cur, x) + Count(g.new, x)

\* in how many places x is held: the generations of every participant (those
\* of its garbage field and, during migrate_garbage, those of the moved-out
\* value) and the three global bags
Holders(x) ==
    SumTo([p \in Procs |-> LocalHolds(garbage[p], x) + LocalHolds(local[p], x)], NumProcs)
    + SumTo([i \in 1..3 |-> Count(global_garbage[i - 1], x)], 3)

\* try_collect calls that snapshotted e, won the compare-and-swap and have not returned
InFlight(e) ==
    Cardinality({p \in Procs : pc[p] \in {"tc_store", "tc_global"} /\ cur_epoch[p] = e})

\* C1: an object passed to reclaim is not destroyed while a participant that
\* was inside a critical section at the moment of the reclaim is still inside
\* it (a participant that has itself advanced the epoch since is not counted),
\* nor before the global epoch has advanced twice after the reclaim, whether a
\* local collect or a global-bag collect destroys it.
C1_GracePeriod ==
    [][\A x \in Objs :
          destroyed'[x] > destroyed[x] => pinnedSince[x] = {} /\ advSince[x] >= 2]_vars

\* C2: no destructor runs twice; a reclaimed object that is not destroyed is
\* held in exactly one place, a destroyed one (and one not yet reclaimed) in none.
C2_NoDoubleDestruction ==
    \A x \in Objs :
        /\ destroyed[x] <= 1
        /\ Holders(x) = IF x < nextObj /\ destroyed[x] = 0 THEN 1 ELSE 0

C2_Witness ==
    \E x, y \in Objs, i \in Bags :
        /\ destroyed[x] = 1
        /\ destroyed[y] = 0
        /\ Count(global_garbage[i], y) = 1

\* C3 as stated: in the single-thread scenario both try_collect calls return
\* true and the object has been destroyed once after the second.
C3_DestroyedAfterSecond ==
    /\ scen # "failed"
    /\ scen = "collect2" /\ pc[ScenProc] = "idle" => destroyed[ScenObj] = 1

\* C3 as amended: in the single-thread scenario every try_collect returns
\* true; after the second the object is undestroyed in the caller's old
\* generation, and it has been destroyed once after the third.
C3_DestroyedAfterThird ==
    /\ scen # "failed"
    /\ scen = "collect2" /\ pc[ScenProc] = "idle" =>
          /\ destroyed[ScenObj] = 0
          /\ garbage[ScenProc] = [old |-> <<ScenObj>>, cur |-> <<>>, new |-> <<>>]
    /\ scen = "collect3" => destroyed[ScenObj] = 1

C3_Witness == scen = "collect3" /\ result[ScenProc] = "true"

\* C4: for every epoch value e, exactly one try_collect call that snapshotted
\* e wins the step e -> e+1 once the global epoch has passed e, and none
\* before: true returns and epoch increments are in one-to-one correspondence
\* (a winner that has not returned yet is counted as in flight).
C4_SingleWinner ==
    \A e \in 0..(EpochMod - 1) :
        wins[e] + InFlight(e) = IF e < global_epoch THEN 1 ELSE 0

C4_Witness ==
    \E p, q \in Procs :
        /\ p # q
        /\ pc[p] = "tc_cas"
        /\ pc[q] \in {"tc_store", "tc_global"}
        /\ cur_epoch[p] = cur_epoch[q]

\* C5: every step leaves the global epoch alone, except a compare-and-swap of
\* try_collect that finds it equal to the snapshot, which adds exactly 1.
C5_EpochMonotonic ==
    [][\/ global_epoch' = global_epoch
       \/ /\ global_epoch' = global_epoch + 1
          /\ \E p \in Procs : /\ pc[p] = "tc_cas"
                              /\ pc'[p] = "tc_store"
                              /\ cur_epoch[p] = global_epoch]_vars

C5_Witness == global_epoch = MaxEpoch /\ \E p \in Procs : epoch[p] < global_epoch

\* C6: enter adds 1 to in_critical and exit subtracts 1; a nested enter
\* returns at once, leaving the participant's local epoch and garbage alone
\* and running no destructor; only an enter from depth 0 goes on to read the
\* global epoch; exit changes nothing but in_critical.
C6_Reentrancy ==
    [][\A p \in Procs :
          /\ in_critical'[p] > in_critical[p] =>
                /\ in_critical'[p] = in_critical[p] + 1
                /\ pc'[p] = IF in_critical[p] = 0 THEN "enter_load" ELSE "idle"
                /\ UNCHANGED <<epoch, garbage, destroyed, global_epoch, global_garbage>>
          /\ in_critical'[p] < in_critical[p] =>
                /\ in_critical'[p] = in_critical[p] - 1
                /\ UNCHANGED <<epoch, garbage, destroyed, global_epoch, global_garbage, pc>>
          /\ pc[p] \in {"enter_load", "enter_sync"} => in_critical[p] = 1]_vars

C6_Witness ==
    \E p \in Procs :
        /\ in_critical[p] = 2
        /\ pc[p] = "idle"
        /\ epoch[p] # global_epoch
        /\ garbage_size(p) > 0

\* the migrating thread is about to file, as its last step, MigObjs objects
\* that all sit in the new generation it moved out
MigFiling == pc[MigProc] = "mig_new" /\ Len(local[MigProc].new) = MigObjs

\* migrate_garbage has returned, having filed the MigObjs objects into one
\* global bag, which an advance the model's epoch bound still allows collects
MigFiled ==
    \E i \in Bags :
        /\ Len(global_garbage[i]) = MigObjs
        /\ \E n \in (global_epoch + 1)..MaxEpoch : CollectIndex(n) = i

MigAllDestroyed == \A x \in 1..MigObjs : destroyed[x] = 1

\* a try_collect call has just taken its snapshot
CallStarted == \E p \in Procs : pc[p] = "tc_scan" /\ scan_i[p] = 1

\* try_collect keeps being called (as long as the epoch bound lets it), and no
\* participant stays forever in a critical section with a local epoch that
\* differs from the global epoch
MigProvisos ==
    /\ []<>(CallStarted \/ global_epoch >= MaxEpoch)
    /\ \A p \in Procs : []<>(~(in_critical[p] > 0 /\ epoch[p] # global_epoch))

\* C7: in the migration scenario, when migrate_garbage returns none of the
\* MigObjs objects is destroyed and all sit in one global bag; a destructor
\* runs only in a global-bag collect and never twice; and under the provisos
\* all MigObjs objects are eventually destroyed.
C7_Migration ==
    /\ [][MigFiling /\ pc'[MigProc] = "idle" =>
            /\ size(garbage'[MigProc]) = 0
            /\ \A x \in 1..MigObjs :
                  /\ destroyed'[x] = 0
                  /\ Count(global_garbage'[NewIndex(seen_epoch[MigProc])], x) = 1]_vars
    /\ [][\A x \in Objs :
            destroyed'[x] > destroyed[x] =>
                /\ destroyed'[x] = 1
                /\ \E p \in Procs : pc[p] = "tc_global" /\ pc'[p] = "idle"]_vars
    /\ MigProvisos => (MigFiled ~> MigAllDestroyed)

C7_Witness == MigAllDestroyed /\ pc[MigProc] = "idle" /\ in_critical[MigProc] = 0

\* C8: a try_collect call returns true exactly when its scan loaded no
\* participant with in_critical > 0 and epoch # cur_epoch and its
\* compare-and-swap found the global epoch equal to cur_epoch; a scan that
\* loaded no such participant is followed by the compare-and-swap, and a call
\* attempts at most one.
C8_SuccessCondition ==
    \A p \in Procs :
        /\ result[p] # "none" =>
              /\ (result[p] = "true") <=> (scanSaw[p] # "stale" /\ casWon[p])
              /\ scanSaw[p] # "stale" => casTries[p] = 1
        /\ casTries[p] <= 1
        /\ casWon[p] => casTries[p] = 1
        /\ scanSaw[p] = "stale" => casTries[p] = 0

C8_Witness ==
    \E p, q \in Procs :
        /\ result[p] = "true"
        /\ in_critical[q] = 0
        /\ epoch[q] + 2 <= global_epoch

\* a step of p's try_collect of the kinds a call that returns false is made of:
\* the snapshot, a load of the scan, a lost compare-and-swap
FailingStep(p) ==
    \/ pc[p] = "idle" /\ pc'[p] = "tc_scan"
    \/ pc[p] = "tc_scan" /\ (pc'[p] # pc[p] \/ scan_i'[p] # scan_i[p])
    \/ pc[p] = "tc_scan_epoch" /\ pc'[p] # pc[p]
    \/ pc[p] = "tc_cas" /\ pc'[p] # pc[p] /\ global_epoch # cur_epoch[p]

\* C9: a try_collect that returns false has changed neither the global epoch,
\* nor any local epoch or in_critical, nor any local garbage or global bag,
\* and has run no destructor; a lost compare-and-swap returns false.
C9_FailChangesNothing ==
    [][\A p \in Procs :
          FailingStep(p) =>
             /\ UNCHANGED <<global_epoch, epoch, in_critical, garbage, local,
                            global_garbage, destroyed>>
             /\ pc[p] = "tc_cas" => result'[p] = "false" /\ pc'[p] = "idle"]_vars

C9_Witness ==
    \E p \in Procs :
        /\ result[p] = "false"
        /\ casTries[p] = 1
        /\ garbage_size(p) > 0
        /\ epoch[p] # global_epoch

\* C10: reclaim appends the object to the caller's new generation, so that
\* garbage_size grows by 1, and changes nothing else.
C10_ReclaimDefers ==
    [][nextObj' # nextObj =>
          \E p \in Procs :
              /\ garbage'[p] = [garbage[p] EXCEPT !.new = Append(@, nextObj)]
              /\ size(garbage'[p]) = size(garbage[p]) + 1
              /\ \A q \in Procs \ {p} : garbage'[q] = garbage[q]
              /\ UNCHANGED <<epoch, in_critical, global_epoch, global_garbage,
                             local, destroyed>>]_vars

C10_Witness ==
    \E p \in Procs :
        /\ Len(garbage[p].new) = 2
        /\ garbage[p].new[1] < garbage[p].new[2]

\* C11: a participant that has completed an outermost enter and not yet left
\* that critical section has a local epoch equal to the global epoch or one
\* behind it, however the steps of enter interleave with the scans and
\* compare-and-swaps of other threads.
C11_BoundedLag ==
    \A p \in Procs :
        Pinned(p) => global_epoch = epoch[p] \/ global_epoch = epoch[p] + 1

\* a pinned participant is one epoch behind, and the scan of another thread's
\* try_collect has just rejected it
C11_Witness ==
    \E p, q \in Procs :
        /\ p # q
        /\ Pinned(p)
        /\ pc[p] = "idle"
        /\ global_epoch = epoch[p] + 1
        /\ result[q] = "false"
        /\ scanSaw[q] = "stale"

\* destroyed, after one more run of the destructor of every entry of s
AfterDestroying(s) == [x \in Objs |-> destroyed[x] + Count(s, x)]

\* C12: a try_collect that has won the step cur_epoch -> cur_epoch + 1 stores
\* cur_epoch + 1 as the caller's local epoch and rotates the caller's local
\* garbage once (old destroyed, cur -> old, new -> cur, new empty), touching
\* no global bag; nothing changes that epoch or garbage before the call
\* returns; its last step destroys every entry of global bag
\* (cur_epoch + 2) mod 3, empties that bag, leaves the other two bags alone
\* and returns true, and no other step makes a call return true.
C12_SuccessEffects ==
    [][\A p \in Procs :
          /\ pc[p] = "tc_store" /\ pc'[p] # "tc_store" =>
                /\ pc'[p] = "tc_global"
                /\ epoch'[p] = cur_epoch[p] + 1
                /\ garbage'[p] = [old |-> garbage[p].cur,
                                  cur |-> garbage[p].new,
                                  new |-> <<>>]
                /\ destroyed' = AfterDestroying(garbage[p].old)
                /\ global_garbage' = global_garbage
          /\ pc[p] = "tc_global" =>
                /\ epoch[p] = cur_epoch[p] + 1
                /\ epoch'[p] = epoch[p]
                /\ garbage'[p] = garbage[p]
          /\ pc[p] = "tc_global" /\ pc'[p] # "tc_global" =>
                /\ pc'[p] = "idle"
                /\ result'[p] = "true"
                /\ destroyed' = AfterDestroying(global_garbage[(cur_epoch[p] + 2) % 3])
                /\ \A i \in Bags :
                      global_garbage'[i] = IF i = (cur_epoch[p] + 2) % 3
                                           THEN <<>> ELSE global_garbage[i]
          /\ result'[p] = "true" /\ result[p] # "true" => pc[p] = "tc_global"]_vars

\* a call has returned true, an object has been destroyed, and another one
\* still sits in a global bag that the call did not collect
C12_Witness ==
    \E p \in Procs, x, y \in Objs, i \in Bags :
        /\ result[p] = "true"
        /\ destroyed[x] = 1
        /\ i # (epoch[p] + 1) % 3
        /\ Count(global_garbage[i], y) = 1

\* the global bags, after appending the entries of s to bag i
AfterInsert(i, s) ==
    [j \in Bags |-> IF j = i THEN global_garbage[j] \o s ELSE global_garbage[j]]

\* C13: migrate_garbage reads the local epoch e and moves the local garbage
\* out, leaving it empty; it appends the old generation to global bag
\* (e - 1) mod 3 (the subtraction wrapping at 0), the cur generation to bag
\* e mod 3 and, after reading the global epoch G, the new generation to bag
\* G mod 3, every entry once and to no other bag; no step of it runs a
\* destructor or changes the caller's local epoch or in_critical, and when it
\* returns the caller's garbage_size is 0 and nothing is left to file.
C13_MigrateFiling ==
    [][\A p \in Procs :
          /\ pc[p] = "idle" /\ pc'[p] = "mig_old" =>
                /\ cur_epoch'[p] = epoch[p]
                /\ local'[p] = garbage[p]
                /\ size(garbage'[p]) = 0
                /\ global_garbage' = global_garbage
          /\ pc[p] = "mig_old" /\ pc'[p] # "mig_old" =>
                /\ pc'[p] = "mig_cur"
                /\ global_garbage' =
                      AfterInsert(((cur_epoch[p] + EpochMod - 1) % EpochMod) % 3, local[p].old)
                /\ local'[p] = [local[p] EXCEPT !.old = <<>>]
          /\ pc[p] = "mig_cur" /\ pc'[p] # "mig_cur" =>
                /\ pc'[p] = "mig_load"
                /\ global_garbage' = AfterInsert(cur_epoch[p] % 3, local[p].cur)
                /\ local'[p] = [local[p] EXCEPT !.cur = <<>>]
          /\ pc[p] = "mig_load" /\ pc'[p] # "mig_load" =>
                /\ pc'[p] = "mig_new"
                /\ seen_epoch'[p] = global_epoch
                /\ global_garbage' = global_garbage
                /\ local'[p] = local[p]
          /\ pc[p] = "mig_new" /\ pc'[p] # "mig_new" =>
                /\ pc'[p] = "idle"
                /\ global_garbage' = AfterInsert(seen_epoch[p] % 3, local[p].new)
                /\ size(local'[p]) = 0
                /\ size(garbage'[p]) = 0
          /\ pc[p] \in {"mig_old", "mig_cur", "mig_load", "mig_new"} =>
                /\ pc[p] \in {"mig_old", "mig_cur"} => cur_epoch[p] = epoch[p]
                /\ epoch'[p] = epoch[p]
                /\ in_critical'[p] = in_critical[p]
                /\ size(garbage'[p]) = 0
                /\ pc'[p] # pc[p] => destroyed' = destroyed
          /\ pc[p] = "idle" /\ pc'[p] = "mig_old" =>
                UNCHANGED <<epoch, in_critical, destroyed>>]_vars

\* a migrate_garbage of a pinned participant one epoch behind has returned:
\* an entry of its old generation and an entry of its new generation sit in
\* the bags of its local epoch minus one and of the global epoch it read
C13_Witness ==
    \E p \in Procs, x, y \in Objs :
        /\ pc[p] = "idle"
        /\ in_critical[p] > 0
        /\ garbage_size(p) = 0
        /\ global_epoch = epoch[p] + 1
        /\ x < y
        /\ Count(global_garbage[(epoch[p] + 2) % 3], x) = 1
        /\ Count(global_garbage[global_epoch % 3], y) = 1

\* C14: a global-bag collect destroys an object (which migrate_garbage put
\* into that bag) only after the global epoch has advanced twice since the
\* object's reclaim, and never while a participant that was inside a critical
\* section at the moment of the reclaim is still inside it.
C14_MigratedNotUnderAged ==
    [][\A p \in Procs, x \in Objs :
          pc[p] = "tc_global" /\ pc'[p] = "idle" /\ Count(global_garbage[(cur_epoch[p] + 2) % 3], x) > 0 =>
              pinnedSince[x] = {} /\ advSince[x] >= 2]_vars

\* C15: an enter from depth 0 reads the global epoch when in_critical is
\* already 1; if the value read differs from the local epoch, by whatever
\* amount, the next step stores it as the local epoch and rotates the local
\* garbage once (old destroyed, cur -> old, new -> cur, new empty); if it is
\* equal, that step changes neither the local epoch nor the local garbage and
\* runs no destructor; until then no other step touches them.
C15_EnterResync ==
    [][\A p \in Procs :
          /\ pc[p] = "enter_load" /\ pc'[p] # "enter_load" =>
                /\ in_critical[p] = 1
                /\ pc'[p] = "enter_sync"
                /\ seen_epoch'[p] = global_epoch
                /\ UNCHANGED <<epoch, garbage, destroyed>>
          /\ pc[p] = "enter_sync" /\ pc'[p] # "enter_sync" =>
                /\ pc'[p] = "idle"
                /\ in_critical'[p] = 1
                /\ IF seen_epoch[p] # epoch[p]
                   THEN /\ epoch'[p] = seen_epoch[p]
                        /\ garbage'[p] = [old |-> garbage[p].cur,
                                          cur |-> garbage[p].new,
                                          new |-> <<>>]
                        /\ destroyed' = AfterDestroying(garbage[p].old)
                   ELSE /\ epoch'[p] = epoch[p]
                        /\ garbage'[p] = garbage[p]
                        /\ destroyed' = destroyed
          /\ pc[p] \in {"enter_load", "enter_sync"} /\ pc'[p] = pc[p] =>
                epoch'[p] = epoch[p] /\ garbage'[p] = garbage[p]]_vars

\* an outermost enter has read a global epoch several epochs ahead of its
\* local epoch, with garbage in its cur and new generations
C15_Witness ==
    \E p \in Procs :
        /\ pc[p] = "enter_sync"
        /\ seen_epoch[p] >= epoch[p] + 2
        /\ garbage[p].cur # <<>>
        /\ garbage[p].new # <<>>

\* this step is a local collect of p: p's local garbage changes, and the step
\* is neither a reclaim nor the first step of migrate_garbage
LocalCollectStep(p) ==
    /\ garbage'[p] # garbage[p]
    /\ nextObj' = nextObj
    /\ ~(pc[p] = "idle" /\ pc'[p] = "mig_old")

\* where x sits in p's local garbage: 0 nowhere, 1 new, 2 cur, 3 old
Generation(g, x) ==
    IF Count(g.new, x) > 0 THEN 1
    ELSE IF Count(g.cur, x) > 0 THEN 2
    ELSE IF Count(g.old, x) > 0 THEN 3 ELSE 0

\* C16: a local collect of p happens only in an outermost enter that read a
\* global epoch different from the local epoch and in a try_collect that won
\* its compare-and-swap; it moves an object of p's new generation to cur, one
\* of cur to old, and destroys one of old; between local collects an object
\* held in p's local garbage stays in its generation and is not destroyed,
\* unless p calls migrate_garbage.  So an object is destroyed by the third
\* local collect after its reclaim and by no earlier one.
C16_ThreeRotations ==
    [][\A p \in Procs, x \in Objs :
          /\ LocalCollectStep(p) =>
                \/ pc[p] = "enter_sync" /\ in_critical[p] = 1 /\ seen_epoch[p] # epoch[p]
                \/ pc[p] = "tc_store" /\ casWon[p]
          /\ LocalCollectStep(p) /\ Generation(garbage[p], x) = 1 =>
                Generation(garbage'[p], x) = 2 /\ destroyed'[x] = 0
          /\ LocalCollectStep(p) /\ Generation(garbage[p], x) = 2 =>
                Generation(garbage'[p], x) = 3 /\ destroyed'[x] = 0
          /\ LocalCollectStep(p) /\ Generation(garbage[p], x) = 3 =>
                Generation(garbage'[p], x) = 0 /\ destroyed'[x] = 1
          /\ ~LocalCollectStep(p) /\ Generation(garbage[p], x) > 0
                /\ ~(pc[p] = "idle" /\ pc'[p] = "mig_old") =>
                Generation(garbage'[p], x) = Generation(garbage[p], x) /\ destroyed'[x] = 0
          /\ nextObj' # nextObj /\ garbage'[p] # garbage[p] /\ x = nextObj =>
                Generation(garbage'[p], x) = 1]_vars

\* the thread of the single-thread scenario has reclaimed an object and then
\* collected its local garbage three times without calling migrate_garbage,
\* and the object has been destroyed
C16_Witness ==
    /\ scen = "collect3"
    /\ destroyed[ScenObj] = 1
    /\ garbage_size(ScenProc) = 0
    /\ \A i \in Bags : global_garbage[i] = <<>>

\* C17: with the epoch counter wrapping from EpochMod - 1 to 0 (EpochMod mod 3
\* = 1), no object passed to reclaim is destroyed, by a local collect or by a
\* global-bag collect, while a participant that was inside a critical section
\* at the moment of the reclaim is still inside it.
C17_WrapGracePeriod ==
    [][\A x \in Objs : destroyed'[x] > destroyed[x] => pinnedSince[x] = {}]_vars

\* how many steps an operation standing at position at, with the scan at
\* participant i, has left at most
StepsLeft(at, i) ==
    CASE at = "idle" -> 0
      [] at = "enter_load" -> 2
      [] at = "enter_sync" -> 1
      [] at = "tc_scan" -> 2 * (NumProcs - i) + 5
      [] at = "tc_scan_epoch" -> 2 * (NumProcs - i) + 4
      [] at = "tc_cas" -> 3
      [] at = "tc_store" -> 2
      [] at = "tc_global" -> 1
      [] at = "mig_old" -> 4
      [] at = "mig_cur" -> 3
      [] at = "mig_load" -> 2
      [] at = "mig_new" -> 1

\* C18: a participant that is inside an operation can always take its next
\* step, whatever state the other participants are in; every step it takes
\* brings the operation nearer to its return, an operation taking at most
\* 2 * NumProcs + 4 steps (enter, exit and reclaim fewer); steps of other
\* threads do not set it back; and a try_collect attempts at most one
\* compare-and-swap.
C18_NonBlocking ==
    /\ [](\A p \in Procs : pc[p] # "idle" => ENABLED Running(p))
    /\ [][\A p \in Procs :
            /\ StepsLeft(pc'[p], scan_i'[p]) <= 2 * NumProcs + 3
            /\ pc[p] # "idle" =>
                  StepsLeft(pc'[p], scan_i'[p]) <= StepsLeft(pc[p], scan_i[p])
            /\ pc[p] # "idle" /\ <<pc'[p], scan_i'[p]>> # <<pc[p], scan_i[p]>> =>
                  StepsLeft(pc'[p], scan_i'[p]) < StepsLeft(pc[p], scan_i[p])
            /\ casTries'[p] <= 1
            /\ casTries'[p] > casTries[p] => pc[p] = "tc_cas" /\ pc'[p] # "tc_cas"]_vars

\* a try_collect has returned false on meeting a stale participant that is
\* still in the middle of an operation of its own
C18_Witness ==
    \E p, q \in Procs :
        /\ p # q
        /\ result[p] = "false"
        /\ scanSaw[p] = "stale"
        /\ pc[p] = "idle"
        /\ pc[q] \notin {"idle", "enter_load", "enter_sync"}
        /\ in_critical[q] > 0
        /\ epoch[q] # global_epoch

\* C19: every participant's local epoch is at most the global epoch; a local
\* epoch never decreases, and it changes only in an outermost enter, to the
\* value that enter read from the global epoch, and in a try_collect whose
\* compare-and-swap has set the global epoch to cur_epoch + 1, to that value.
C19_LocalEpochBounds ==
    /\ [](\A p \in Procs : epoch[p] <= global_epoch)
    /\ [][\A p \in Procs :
            /\ epoch'[p] >= epoch[p]
            /\ epoch'[p] # epoch[p] =>
                  \/ /\ pc[p] = "enter_sync"
                     /\ epoch'[p] = seen_epoch[p]
                  \/ /\ pc[p] = "tc_store"
                     /\ casWon[p]
                     /\ epoch'[p] = cur_epoch[p] + 1
                     /\ global_epoch >= cur_epoch[p] + 1
            /\ pc'[p] = "enter_sync" /\ pc[p] # "enter_sync" =>
                  seen_epoch'[p] = global_epoch]_vars

\* one participant has just stored the epoch it advanced to, another one is
\* pinned one epoch behind, at an epoch it stored itself
C19_Witness ==
    \E p, q \in Procs :
        /\ pc[p] = "tc_global"
        /\ epoch[p] = global_epoch
        /\ pc[q] = "idle"
        /\ in_critical[q] = 1
        /\ epoch[q] > 0
        /\ epoch[q] + 1 = global_epoch

\* p is inside a try_collect that has not yet attempted its compare-and-swap
Scanning(p) == pc[p] \in {"tc_scan", "tc_scan_epoch"}

\* C20: try_collect is called inside a critical section and its scan visits
\* the caller's own record; a caller whose local epoch differs from its
\* snapshot cur_epoch stays so during the scan, never reaches the
\* compare-and-swap, leaves the global epoch alone, and is sent back with
\* false at the latest when the scan reads its own epoch; so a call that
\* attempts the compare-and-swap, and one that wins it, has local epoch =
\* cur_epoch, and a pinned participant behind the global epoch cannot start
\* a call that is not stale.
C20_StaleCallerFails ==
    /\ [](\A p \in Procs :
            /\ pc[p] \in {"tc_scan", "tc_scan_epoch", "tc_cas", "tc_store", "tc_global"} =>
                  in_critical[p] > 0
            /\ pc[p] \in {"tc_cas", "tc_store"} => epoch[p] = cur_epoch[p])
    /\ [][\A p \in Procs :
            /\ pc[p] = "idle" /\ pc'[p] = "tc_scan" =>
                  /\ cur_epoch'[p] = global_epoch
                  /\ scan_i'[p] = 1
                  /\ epoch[p] # global_epoch => epoch'[p] # cur_epoch'[p]
            /\ Scanning(p) /\ epoch[p] # cur_epoch[p] =>
                  /\ epoch'[p] = epoch[p]
                  /\ cur_epoch'[p] = cur_epoch[p] \/ pc'[p] = "idle"
                  /\ pc'[p] # "tc_cas"
                  /\ scan_i[p] <= p
                  /\ pc'[p] # pc[p] \/ scan_i'[p] # scan_i[p] =>
                        /\ global_epoch' = global_epoch
                        /\ pc'[p] = "idle" => result'[p] = "false"
            /\ pc[p] = "tc_scan" /\ scan_i[p] = p /\ pc'[p] # "tc_scan" =>
                  pc'[p] = "tc_scan_epoch" /\ scan_i'[p] = p
            /\ pc[p] = "tc_scan_epoch" /\ scan_i[p] = p /\ epoch[p] # cur_epoch[p]
                  /\ pc'[p] # "tc_scan_epoch" =>
                  pc'[p] = "idle" /\ result'[p] = "false"
            /\ pc[p] = "tc_cas" /\ pc'[p] = "tc_store" =>
                  epoch[p] = cur_epoch[p] /\ cur_epoch[p] = global_epoch]_vars

\* a pinned participant behind the global epoch has called try_collect while
\* no other participant was active, and its scan has sent it back with false
C20_Witness ==
    \E p \in Procs :
        /\ pc[p] = "idle"
        /\ in_critical[p] > 0
        /\ epoch[p] # global_epoch
        /\ result[p] = "false"
        /\ scanSaw[p] = "stale"
        /\ casTries[p] = 0
        /\ \A q \in Procs \ {p} : in_critical[q] = 0 /\ pc[q] = "idle" /\ epoch[q] = global_epoch
====
